---- MODULE Spec2Model ----
(***************************************************************************)
(* State-machine model of donut.rs (src/src/main.rs): App::run, its        *)
(* helpers clear_terminal / clear_state / render_frame, and main.          *)
(*                                                                         *)
(* Numbers.  The program computes in f64.  The model computes the same     *)
(* expressions in decimal fixed point: a real v is the integer             *)
(* round(v * Unit).  Angles are kept in centiradians (0.01 rad), in which   *)
(* every angle of the program (1.0, 0.07, 0.03, 0.02 and their sums) is an  *)
(* integer.  sin and cos are computed by range reduction and the Taylor     *)
(* series, to 1e-4.  Inverse depth (ooz) is kept to 1e-5.                    *)
(***************************************************************************)
EXTENDS Integers, Sequences, FiniteSets, TLC

(***************************************************************************)
(* Bounds of the model (not program constants).                            *)
(***************************************************************************)
\* frames rendered by Spec, which takes one step per (theta, phi) sample
MaxFrames == 1
\* frames rendered by SpecRows, which takes one step per theta and per grid row
MaxTicks == 2
\* loop iterations evaluated per level of recursion when a whole inner loop is
\* one step (it limits the depth of evaluation, not what is computed)
BurstLen == 20
\* ticks run by SpecDriver, which takes one step per tick
DriverTicks == 100

(***************************************************************************)
(* Program constants.                                                      *)
(***************************************************************************)
SCREEN_WIDTH == 30
SCREEN_HEIGHT == 30
\* 0.07 and 0.02 rad, in centiradians
THETA_SPACING == 7
PHI_SPACING == 2
R1 == 1
R2 == 2
K2 == 5
\* initial rotation angles 1.0 rad and per-tick increments 0.07, 0.03 rad
INIT_A == 100
INIT_B == 100
STEP_A == 7
STEP_B == 3

(***************************************************************************)
(* f64 arithmetic in fixed point.                                          *)
(***************************************************************************)
\* one unit of a fixed-point real: 1.0 = Unit
Unit == 10^4
\* one unit of inverse depth: 1.0 = OozUnit
OozUnit == 10^5
\* std::f64::consts::PI, in 1e-4 rad
PI == 31416

\* p * q of two fixed-point reals, rounded to nearest
Mul(p, q) == (p * q + Unit \div 2) \div Unit

\* p / q for an integer q > 0, rounded to nearest
RDiv(p, q) == (2 * p + q) \div (2 * q)

\* sin x for |x| <= PI/2, x in 1e-4 rad: the Taylor series
\* x - x^3/3! + x^5/5! - x^7/7! + x^9/9! - x^11/11!, by Horner's rule
SinSmall(x) ==
    LET x2  == Mul(x, x)
        t11 == Unit - RDiv(x2, 10 * 11)
        t9  == Unit - RDiv(Mul(x2, t11), 8 * 9)
        t7  == Unit - RDiv(Mul(x2, t9), 6 * 7)
        t5  == Unit - RDiv(Mul(x2, t7), 4 * 5)
        t3  == Unit - RDiv(Mul(x2, t5), 2 * 3)
    IN  Mul(x, t3)

\* sin u for u >= 0 in 1e-4 rad
SinU(u) ==
    LET r == u % (2 * PI)
    IN  IF r <= PI \div 2 THEN SinSmall(r)
        ELSE IF r <= (3 * PI) \div 2 THEN SinSmall(PI - r)
        ELSE SinSmall(r - 2 * PI)

\* the largest angle (centiradians) the program forms within the bounds
MaxAngle == 700 + STEP_A * (MaxFrames + MaxTicks + DriverTicks + 2)

SinTable == [c \in 0..MaxAngle |-> SinU(100 * c)]
CosTable == [c \in 0..MaxAngle |-> SinU(100 * c + PI \div 2)]

\* f64::sin and f64::cos of an angle in centiradians
Sin(c) == SinTable[c]
Cos(c) == CosTable[c]

\* `v as usize` of an f64 v: truncation toward zero, negatives saturate to 0
AsUsize(v) == IF v <= 0 THEN 0 ELSE v \div Unit

(***************************************************************************)
(* Geometry of one sample (render_frame, lines 71-110).                     *)
(***************************************************************************)
\* screen-scale factor: SCREEN_WIDTH * K2 * 3 / (8 * (R1 + R2))
K1 == (SCREEN_WIDTH * K2 * 3 * Unit) \div (8 * (R1 + R2))

\* the x,y coordinate of the circle, before revolving
Cx(theta) == R2 * Unit + R1 * Cos(theta)
Cy(theta) == R1 * Sin(theta)

\* final 3D (x, y, z) coordinate after the rotations by A and B
X3(theta, phi, A, B) ==
    Mul(Cx(theta), Mul(Cos(B), Cos(phi)) + Mul(Mul(Sin(A), Sin(B)), Sin(phi)))
        - Mul(Mul(Cy(theta), Cos(A)), Sin(B))
Y3(theta, phi, A, B) ==
    Mul(Cx(theta), Mul(Sin(B), Cos(phi)) - Mul(Mul(Sin(A), Cos(B)), Sin(phi)))
        + Mul(Mul(Cy(theta), Cos(A)), Cos(B))
Z3(theta, phi, A, B) ==
    K2 * Unit + Mul(Mul(Cos(A), Cx(theta)), Sin(phi)) + Mul(Cy(theta), Sin(A))

\* "one over z", in units of 1/OozUnit
Ooz(theta, phi, A, B) == (Unit * OozUnit) \div Z3(theta, phi, A, B)

\* K1 * ooz * v for a coordinate v
Scaled(ooz, v) == Mul(K1, (ooz * v + OozUnit \div 2) \div OozUnit)

\* x and y projection, before the cast to usize
XpReal(theta, phi, A, B) ==
    (SCREEN_WIDTH * Unit) \div 2 + Scaled(Ooz(theta, phi, A, B), X3(theta, phi, A, B))
YpReal(theta, phi, A, B) ==
    (SCREEN_HEIGHT * Unit) \div 2 - Scaled(Ooz(theta, phi, A, B), Y3(theta, phi, A, B))

\* luminance
Luminance(theta, phi, A, B) ==
    Mul(Mul(Cos(phi), Cos(theta)), Sin(B))
        - Mul(Mul(Cos(A), Cos(theta)), Sin(phi))
        - Mul(Sin(A), Sin(theta))
        + Mul(Cos(B), Mul(Cos(A), Sin(theta)) - Mul(Mul(Cos(theta), Sin(A)), Sin(phi)))

\* the locals of one loop iteration (lines 92-110): xr, yr are the projections
\* before the cast, xp, yp after it
Locals(xr, yr, ooz, l) ==
    [ xr |-> xr, yr |-> yr, xp |-> AsUsize(xr), yp |-> AsUsize(yr), ooz |-> ooz, l |-> l ]

SampleAt(theta, phi, A, B) ==
    Locals(XpReal(theta, phi, A, B), YpReal(theta, phi, A, B),
           Ooz(theta, phi, A, B), Luminance(theta, phi, A, B))

(***************************************************************************)
(* The grids and the plot of one sample (render_frame, lines 113-130).      *)
(***************************************************************************)
Rows == 0..(SCREEN_HEIGHT - 1)
Cols == 0..(SCREEN_WIDTH - 1)

\* [[' '; SCREEN_WIDTH]; SCREEN_HEIGHT] and [[0.0; SCREEN_WIDTH]; SCREEN_HEIGHT]
BlankOutput == [r \in Rows |-> [c \in Cols |-> " "]]
ZeroDepth == [r \in Rows |-> [c \in Cols |-> 0]]

\* String::from(".,-~:;=!*#$@")
Palette == <<".", ",", "-", "~", ":", ";", "=", "!", "*", "#", "$", "@">>

\* mutant of LuminanceIndex: scaled by the 12 glyphs instead of by 8
LuminanceIndexBy12(l) == AsUsize(l * 12)

\* (l * 8.0) as usize
LuminanceIndex(l) == AsUsize(l * 8)

\* indexing [yp][xp] of a grid panics outside the array
InGrid(s) == s.yp < SCREEN_HEIGHT /\ s.xp < SCREEN_WIDTH

\* .chars().nth(i) is Some
HasGlyph(i) == i < Len(Palette)

\* mutant of Lit: no luminance test, every sample is plotted
LitAlways(s) == s.l > 0 - 2 * Unit

\* the `if l > 0.0` test of line 113
Lit(s) == s.l > 0

\* mutant of Closer: the depth test inverted (farther sample wins)
CloserInverted(s, zb) == s.ooz < zb[s.yp][s.xp] \/ zb[s.yp][s.xp] = 0

\* the z-buffer test of line 116
Closer(s, zb) == s.ooz > zb[s.yp][s.xp]

\* mutant of Plot: no depth test, the latest lit sample always overwrites
\* (the immediate-draw variant)
PlotLastWins(out, zb, s) ==
    IF ~(s.l > 0) THEN [output |-> out, zbuffer |-> zb, panic |-> FALSE]
    ELSE IF ~(s.yp < SCREEN_HEIGHT /\ s.xp < SCREEN_WIDTH)
         THEN [output |-> out, zbuffer |-> zb, panic |-> TRUE]
    ELSE [output  |-> [out EXCEPT ![s.yp][s.xp] = Palette[AsUsize(s.l * 8) + 1]],
          zbuffer |-> IF s.ooz > zb[s.yp][s.xp]
                      THEN [zb EXCEPT ![s.yp][s.xp] = s.ooz] ELSE zb,
          panic   |-> FALSE]

\* The grids after lines 113-130 for sample s, and whether the code panicked
\* (an index out of the array, or unwrap of None).
Plot(out, zb, s) ==
    IF ~Lit(s) THEN [output |-> out, zbuffer |-> zb, panic |-> FALSE]
    ELSE IF ~InGrid(s) THEN [output |-> out, zbuffer |-> zb, panic |-> TRUE]
    ELSE IF ~Closer(s, zb) THEN [output |-> out, zbuffer |-> zb, panic |-> FALSE]
    ELSE LET zb2 == [zb EXCEPT ![s.yp][s.xp] = s.ooz]
             i   == LuminanceIndex(s.l)
         IN  IF ~HasGlyph(i)
             THEN [output |-> out, zbuffer |-> zb2, panic |-> TRUE]
             ELSE [output  |-> [out EXCEPT ![s.yp][s.xp] = Palette[i + 1]],
                   zbuffer |-> zb2,
                   panic   |-> FALSE]

\* `while angle < 2.0 * PI`
InSweep(angle) == 100 * angle < 2 * PI

(***************************************************************************)
(* State.                                                                  *)
(***************************************************************************)
VARIABLES
    pc,        \* where run is: the statement about to execute
    a, b,      \* run's rotation angles, in centiradians
    ticks,     \* completed iterations of run's loop
    theta, phi,\* render_frame's sweep angles, in centiradians
    output,    \* App.output
    zbuffer,   \* App.zbuffer
    row, col,  \* render_frame's i and j while it writes the grid
    buf,       \* what was written to App.buf since its last flush
    flushes,   \* completed flushes of App.buf
    termRow,   \* the terminal row the cursor is on after the bytes written
    err,       \* the Result that run returned to main: "none" while it runs
    last,      \* the locals (xp, yp, ooz, l, ...) of the latest loop iteration
    best,      \* history: per cell, the first lit sample of this frame with the
               \* largest ooz among those that mapped to the cell so far
    src,       \* history: per cell, the sample that last changed the cell
    hit,       \* history: per cell, the latest lit sample that mapped to the cell
    fresh      \* a second App, made by App::new for each frame, given the same samples

vars == <<pc, a, b, ticks, theta, phi, output, zbuffer, row, col, buf, flushes,
          termRow, err, last, best, src, hit, fresh>>

\* the history variables and the second App
aux == <<last, best, src, hit, fresh>>

grids == <<output, zbuffer>>

\* no iteration yet
NoSample == Locals(0, 0, 0, 0)
NoSource == [r \in Rows |-> [c \in Cols |-> NoSample]]

\* App::new
NewApp == [output |-> BlankOutput, zbuffer |-> ZeroDepth, panic |-> FALSE]

\* the state after App::new, with run about to execute statement p
InitAt(p) ==
    /\ pc = p
    /\ a = INIT_A /\ b = INIT_B /\ ticks = 0
    /\ theta = 0 /\ phi = 0
    /\ output = NewApp.output /\ zbuffer = NewApp.zbuffer
    /\ row = 0 /\ col = 0
    /\ buf = <<>> /\ flushes = 0 /\ termRow = 0
    /\ err = "none"
    /\ last = NoSample
    /\ best = NoSource
    /\ src = NoSource
    /\ hit = NoSource
    /\ fresh = NewApp

Init == InitAt("enter_alternate_screen")

(***************************************************************************)
(* The `?` operator on the Result of an I/O call: Ok continues at next,    *)
(* Err returns the error from run to main at once, which ends the process. *)
(***************************************************************************)
\* mutant of Propagate: an Err is noted and the loop goes on to retry the call
PropagateRetry(ok, next) ==
    IF ok THEN pc' = next /\ err' = err
    ELSE pc' = pc /\ err' = "io_error"

Propagate(ok, next) ==
    IF ok THEN pc' = next /\ err' = err
    ELSE pc' = "exit" /\ err' = "io_error"

(***************************************************************************)
(* clear_terminal (lines 62-68).                                           *)
(***************************************************************************)
\* execute!(self.buf, terminal::EnterAlternateScreen)?  (queue, then flush)
EnterAlternateScreen ==
    /\ pc = "enter_alternate_screen"
    /\ \E ok \in BOOLEAN :
          /\ Propagate(ok, "hide_cursor")
          /\ buf' = <<>>
          /\ flushes' = IF ok THEN flushes + 1 ELSE flushes
    /\ UNCHANGED <<a, b, ticks, theta, phi, output, zbuffer, row, col, termRow>>
    /\ UNCHANGED aux

\* queue!(self.buf, cursor::Hide)?
HideCursor ==
    /\ pc = "hide_cursor"
    /\ \E ok \in BOOLEAN :
          /\ Propagate(ok, "flush_terminal")
          /\ buf' = IF ok THEN Append(buf, "ESC[?25l") ELSE buf
    /\ UNCHANGED <<a, b, ticks, theta, phi, output, zbuffer, row, col, flushes, termRow>>
    /\ UNCHANGED aux

\* self.buf.flush()?
FlushTerminal ==
    /\ pc = "flush_terminal"
    /\ \E ok \in BOOLEAN :
          /\ Propagate(ok, "clear_state")
          /\ buf' = IF ok THEN <<>> ELSE buf
          /\ flushes' = IF ok THEN flushes + 1 ELSE flushes
    /\ UNCHANGED <<a, b, ticks, theta, phi, output, zbuffer, row, col, termRow>>
    /\ UNCHANGED aux

(***************************************************************************)
(* run's loop (lines 46-54): clear_state and the sample sweep.             *)
(***************************************************************************)
\* mutant of ClearedGrids: clear_state forgets the z-buffer
StaleDepth == <<BlankOutput, zbuffer>>

\* mutant of ClearedGrids: clear_state forgets the output grid
StaleOutput == <<output, ZeroDepth>>

\* the grids after clear_state (lines 57-60)
ClearedGrids == <<BlankOutput, ZeroDepth>>

\* thread::sleep; self.clear_state(), in one of the first n iterations of the loop
ClearState(n) ==
    /\ pc = "clear_state"
    /\ ticks < n
    /\ output' = ClearedGrids[1]
    /\ zbuffer' = ClearedGrids[2]
    /\ best' = NoSource
    /\ src' = NoSource
    /\ hit' = NoSource
    /\ fresh' = NewApp
    /\ pc' = "render_frame"
    /\ UNCHANGED <<a, b, ticks, theta, phi, row, col, buf, flushes, termRow, err, last>>

\* render_frame, lines 71-77 and 84: the sweep starts at theta = 0, phi = 0
BeginSweep ==
    /\ pc = "render_frame"
    /\ theta' = 0
    /\ phi' = 0
    /\ pc' = "sweep"
    /\ UNCHANGED <<a, b, ticks, output, zbuffer, row, col, buf, flushes, termRow, err>>
    /\ UNCHANGED aux

\* the App's grids and the history, as one value
Frame ==
    [ output |-> output, zbuffer |-> zbuffer, panic |-> FALSE,
      last |-> last, best |-> best, src |-> src, hit |-> hit, fresh |-> fresh ]

\* Frame g after the body of the inner loop (lines 86-130) for the sample s:
\* both Apps plot s, and the history records it
Iterate(g, s) ==
    LET p    == Plot(g.output, g.zbuffer, s)
        inside == s.yp < SCREEN_HEIGHT /\ s.xp < SCREEN_WIDTH
    IN  [ output  |-> p.output,
          zbuffer |-> p.zbuffer,
          panic   |-> p.panic,
          last    |-> s,
          best    |-> IF inside /\ s.l > 0 /\ s.ooz > g.best[s.yp][s.xp].ooz
                      THEN [g.best EXCEPT ![s.yp][s.xp] = s]
                      ELSE g.best,
          src     |-> IF inside /\ <<p.output[s.yp][s.xp], p.zbuffer[s.yp][s.xp]>>
                                 # <<g.output[s.yp][s.xp], g.zbuffer[s.yp][s.xp]>>
                      THEN [g.src EXCEPT ![s.yp][s.xp] = s]
                      ELSE g.src,
          hit     |-> IF inside /\ s.l > 0
                      THEN [g.hit EXCEPT ![s.yp][s.xp] = s]
                      ELSE g.hit,
          fresh   |-> Plot(g.fresh.output, g.fresh.zbuffer, s) ]

\* the variables take Frame g
Becomes(g) ==
    /\ output' = g.output
    /\ zbuffer' = g.zbuffer
    /\ last' = g.last
    /\ best' = g.best
    /\ src' = g.src
    /\ hit' = g.hit
    /\ fresh' = g.fresh

\* one iteration of the inner loop (lines 85-133)
Sample ==
    /\ pc = "sweep"
    /\ InSweep(theta)
    /\ InSweep(phi)
    /\ LET g == Iterate(Frame, SampleAt(theta, phi, a, b))
       IN  /\ Becomes(g)
           /\ IF g.panic
              THEN pc' = "panic" /\ phi' = phi
              ELSE pc' = pc /\ phi' = phi + PHI_SPACING
    /\ UNCHANGED <<a, b, ticks, theta, row, col, buf, flushes, termRow, err>>

\* the inner loop ends: theta += THETA_SPACING, and phi restarts at 0 (line 84)
NextTheta ==
    /\ pc = "sweep"
    /\ InSweep(theta)
    /\ ~InSweep(phi)
    /\ theta' = theta + THETA_SPACING
    /\ phi' = 0
    /\ UNCHANGED <<pc, a, b, ticks, output, zbuffer, row, col, buf, flushes,
                   termRow, err>>
    /\ UNCHANGED aux

RECURSIVE Burst(_, _, _, _, _, _)
\* at most n iterations of the inner loop (lines 85-133), from phi on
Burst(g, th, ph, n, A, B) ==
    IF n = 0 \/ g.panic \/ ~InSweep(ph) THEN g
    ELSE Burst(Iterate(g, SampleAt(th, ph, A, B)), th, ph + PHI_SPACING, n - 1, A, B)

RECURSIVE InnerLoop(_, _, _, _, _)
\* the inner loop (lines 84-133) run from phi to its end, for one theta,
\* evaluated BurstLen iterations at a time
InnerLoop(g, th, ph, A, B) ==
    IF g.panic \/ ~InSweep(ph) THEN g
    ELSE InnerLoop(Burst(g, th, ph, BurstLen, A, B), th, ph + BurstLen * PHI_SPACING, A, B)

\* one iteration of the outer loop (lines 78-136): the whole inner loop, then
\* theta += THETA_SPACING
SweepRow ==
    /\ pc = "sweep"
    /\ InSweep(theta)
    /\ LET g == InnerLoop(Frame, theta, 0, a, b)
       IN  /\ Becomes(g)
           /\ IF g.panic
              THEN pc' = "panic" /\ theta' = theta
              ELSE pc' = pc /\ theta' = theta + THETA_SPACING
    /\ phi' = 0
    /\ UNCHANGED <<a, b, ticks, row, col, buf, flushes, termRow, err>>

\* the outer loop ends
EndSweep ==
    /\ pc = "sweep"
    /\ ~InSweep(theta)
    /\ pc' = "write_home"
    /\ UNCHANGED <<a, b, ticks, theta, phi, output, zbuffer, row, col, buf,
                   flushes, termRow, err>>
    /\ UNCHANGED aux

(***************************************************************************)
(* render_frame, lines 138-148: the grid is written to self.buf.  What is  *)
(* written is kept as chunks: "CR" (\r), "ESC[H" (cursor home), "LF" (\n), *)
(* "ESC[?25l" (hide cursor) and the glyphs.                                *)
(***************************************************************************)
\* the terminal row of the cursor after chunk c, from row r
CursorRow(r, c) ==
    IF c = "ESC[H" THEN 0 ELSE IF c = "LF" THEN r + 1 ELSE r

\* writeln!(self.buf, "\r\x1b[H") writes \r, ESC[H and the newline of writeln!
HomeBytes == <<"CR", "ESC[H", "LF">>

\* writeln!(self.buf, "\r\x1b[H")?
WriteHome ==
    /\ pc = "write_home"
    /\ \E ok \in BOOLEAN :
          /\ Propagate(ok, "write_rows")
          /\ buf' = IF ok THEN buf \o HomeBytes ELSE buf
          /\ termRow' = IF ok
                        THEN CursorRow(CursorRow(CursorRow(termRow, HomeBytes[1]),
                                                 HomeBytes[2]), HomeBytes[3])
                        ELSE termRow
    /\ row' = 0
    /\ col' = 0
    /\ UNCHANGED <<a, b, ticks, theta, phi, output, zbuffer, flushes>>
    /\ UNCHANGED aux

\* write!(self.buf, "{}", self.output[i][j])?
WriteGlyph ==
    /\ pc = "write_rows"
    /\ row < SCREEN_HEIGHT
    /\ col < SCREEN_WIDTH
    /\ \E ok \in BOOLEAN :
          /\ Propagate(ok, "write_rows")
          /\ buf' = IF ok THEN Append(buf, output[row][col]) ELSE buf
          /\ col' = IF ok THEN col + 1 ELSE col
    /\ UNCHANGED <<a, b, ticks, theta, phi, output, zbuffer, row, flushes, termRow>>
    /\ UNCHANGED aux

\* writeln!(self.buf)?  at the end of row i
WriteNewline ==
    /\ pc = "write_rows"
    /\ row < SCREEN_HEIGHT
    /\ col = SCREEN_WIDTH
    /\ \E ok \in BOOLEAN :
          /\ Propagate(ok, "write_rows")
          /\ buf' = IF ok THEN Append(buf, "LF") ELSE buf
          /\ termRow' = IF ok THEN CursorRow(termRow, "LF") ELSE termRow
          /\ row' = IF ok THEN row + 1 ELSE row
          /\ col' = IF ok THEN 0 ELSE col
    /\ UNCHANGED <<a, b, ticks, theta, phi, output, zbuffer, flushes>>
    /\ UNCHANGED aux

\* what one iteration of `for i` writes: the glyphs of row r, then a newline
RowBytes(r) == [k \in 1..SCREEN_WIDTH |-> output[r][k - 1]] \o <<"LF">>

\* one iteration of `for i` (lines 139-144): the first n of its
\* SCREEN_WIDTH + 1 writes return Ok, and the next one, if any, fails
WriteRow ==
    /\ pc = "write_rows"
    /\ row < SCREEN_HEIGHT
    /\ \E n \in 0..(SCREEN_WIDTH + 1) :
          LET ok == n = SCREEN_WIDTH + 1
          IN  /\ Propagate(ok, "write_rows")
              /\ buf' = buf \o SubSeq(RowBytes(row), 1, n)
              /\ termRow' = IF ok THEN CursorRow(termRow, "LF") ELSE termRow
              /\ row' = IF ok THEN row + 1 ELSE row
              /\ col' = IF ok THEN 0 ELSE n
    /\ UNCHANGED <<a, b, ticks, theta, phi, output, zbuffer, flushes>>
    /\ UNCHANGED aux

\* self.buf.flush()?  after the last row
FlushFrame ==
    /\ pc = "write_rows"
    /\ row = SCREEN_HEIGHT
    /\ \E ok \in BOOLEAN :
          /\ Propagate(ok, "advance")
          /\ buf' = IF ok THEN <<>> ELSE buf
          /\ flushes' = IF ok THEN flushes + 1 ELSE flushes
    /\ UNCHANGED <<a, b, ticks, theta, phi, output, zbuffer, row, col, termRow>>
    /\ UNCHANGED aux

\* mutant of NextB: b is advanced by a's step
NextBByStepA(v) == v + STEP_A

\* a += 0.07 and b += 0.03
NextA(v) == v + STEP_A
NextB(v) == v + STEP_B

\* a += 0.07; b += 0.03 (lines 52-53), and back to the top of the loop
Advance ==
    /\ pc = "advance"
    /\ a' = NextA(a)
    /\ b' = NextB(b)
    /\ ticks' = ticks + 1
    /\ pc' = "clear_state"
    /\ UNCHANGED <<theta, phi, output, zbuffer, row, col, buf, flushes, termRow, err>>
    /\ UNCHANGED aux

(***************************************************************************)
(* Spec: run, one step per statement and per (theta, phi) sample.          *)
(***************************************************************************)
Next ==
    \/ EnterAlternateScreen
    \/ HideCursor
    \/ FlushTerminal
    \/ ClearState(MaxFrames)
    \/ BeginSweep
    \/ Sample
    \/ NextTheta
    \/ EndSweep
    \/ WriteHome
    \/ WriteGlyph
    \/ WriteNewline
    \/ FlushFrame
    \/ Advance

Spec == Init /\ [][Next]_vars

(***************************************************************************)
(* SpecRows: the same run, with each iteration of the outer sweep loop and *)
(* of the `for i` loop taken as one step.                                  *)
(***************************************************************************)
NextRows ==
    \/ EnterAlternateScreen
    \/ HideCursor
    \/ FlushTerminal
    \/ ClearState(MaxTicks)
    \/ BeginSweep
    \/ SweepRow
    \/ EndSweep
    \/ WriteHome
    \/ WriteRow
    \/ FlushFrame
    \/ Advance

SpecRows == Init /\ [][NextRows]_vars

(***************************************************************************)
(* SpecDriver: run, one step per tick (lines 46-54 as one step).  It runs  *)
(* DriverTicks ticks, too many to compute every frame, so a grid holds the *)
(* name of its frame, FrameOf(A, B), in place of the frame: after          *)
(* clear_state the sweep of render_frame(A, B) leaves grids that A and B   *)
(* determine.                                                              *)
(***************************************************************************)
\* the frame that clear_state and the sweep of render_frame(A, B) leave in a grid
FrameOf(grid, A, B) == [frame |-> grid, A |-> A, B |-> B]

\* One iteration of run's loop.  Of the SCREEN_HEIGHT + 2 groups of writes of
\* render_frame (home, each row, flush) the first n return Ok and the next
\* one, if any, fails.
Tick ==
    /\ pc = "clear_state"
    /\ ticks < DriverTicks
    /\ output' = FrameOf("output", a, b)
    /\ zbuffer' = FrameOf("zbuffer", a, b)
    /\ \E n \in 0..(SCREEN_HEIGHT + 2) :
          LET ok == n = SCREEN_HEIGHT + 2
          IN  /\ Propagate(ok, "clear_state")
              /\ a' = IF ok THEN NextA(a) ELSE a
              /\ b' = IF ok THEN NextB(b) ELSE b
              /\ ticks' = IF ok THEN ticks + 1 ELSE ticks
              /\ flushes' = IF ok THEN flushes + 1 ELSE flushes
              /\ buf' = IF ok THEN <<>> ELSE <<FrameOf("bytes", a, b), n>>
              /\ termRow' = IF n = 0 THEN termRow
                            ELSE IF n > SCREEN_HEIGHT THEN SCREEN_HEIGHT + 1 ELSE n
              /\ row' = IF n = 0 THEN row ELSE IF n > SCREEN_HEIGHT THEN SCREEN_HEIGHT ELSE n - 1
    /\ UNCHANGED <<theta, phi, col>>
    /\ UNCHANGED aux

NextDriver ==
    \/ EnterAlternateScreen
    \/ HideCursor
    \/ FlushTerminal
    \/ Tick

SpecDriver == Init /\ [][NextDriver]_vars

(***************************************************************************)
(* SpecPlot: lines 104-130 as a function of the f64 values they are given. *)
(* A new App is given one sample whose projections, ooz and luminance are  *)
(* drawn from small sets that reach past every edge of the grid.           *)
(***************************************************************************)
\* projections -1.5, 0.5, n - 0.5 and n + 0.5 along an axis of n cells
Projections(n) ==
    {0 - (3 * Unit) \div 2, Unit \div 2, n * Unit - Unit \div 2, n * Unit + Unit \div 2}

\* ooz 0.125 and 0.2; luminance -0.5, 0.5 and 1.0
PlotOozs == {OozUnit \div 8, OozUnit \div 5}
PlotLs == {0 - Unit \div 2, Unit \div 2, Unit}

InitPlot == InitAt("plot")

\* lines 104-130 for one drawn sample; an App is given two samples
PlotValue ==
    /\ pc \in {"plot", "plot_again"}
    /\ \E xr \in Projections(SCREEN_WIDTH), yr \in Projections(SCREEN_HEIGHT),
          z \in PlotOozs, l \in PlotLs :
          LET g == Iterate(Frame, Locals(xr, yr, z, l))
          IN  /\ Becomes(g)
              /\ pc' = IF g.panic THEN "panic"
                       ELSE IF pc = "plot" THEN "plot_again" ELSE "plotted"
    /\ UNCHANGED <<a, b, ticks, theta, phi, row, col, buf, flushes, termRow, err>>

NextPlot == PlotValue

SpecPlot == InitPlot /\ [][NextPlot]_vars

(***************************************************************************)
(* Properties.                                                             *)
(***************************************************************************)
Cells == Rows \X Cols

\* the sample sweep of the current frame is over and its grids still stand
SweepDone == pc \in {"write_home", "write_rows", "advance"}

\* the glyph that the code's documentation gives a luminance l > 0:
\* index floor(8 l) of the palette
GlyphOf(l) == Palette[(8 * l) \div Unit + 1]

\* C1: after the whole sweep of a frame, every cell that received a glyph stores
\* the largest ooz of all the frame's lit samples that mapped to it, and shows
\* the glyph of the first sample that had it: no later sample with a smaller
\* or equal ooz replaced the depth or the glyph.
C1_DepthIsMaxOoz ==
    SweepDone =>
        \A rc \in Cells :
            LET r == rc[1]
                c == rc[2]
            IN  output[r][c] # " " =>
                    /\ zbuffer[r][c] = best[r][c].ooz
                    /\ output[r][c] = GlyphOf(best[r][c].l)
                    /\ src[r][c] = best[r][c]

\* C1's case: the sweep of a later frame is over, and in a cell with a glyph the
\* latest lit sample that mapped to it was farther than the one it shows
C1_Witness ==
    /\ SweepDone
    /\ ticks >= 1
    /\ \E rc \in Cells :
          /\ output[rc[1]][rc[2]] # " "
          /\ hit[rc[1]][rc[2]].ooz < zbuffer[rc[1]][rc[2]]
          /\ hit[rc[1]][rc[2]] # src[rc[1]][rc[2]]

\* C2: at every moment of a frame, a cell with a glyph holds the ooz of the
\* sample whose luminance produced the glyph (glyph and depth come from one
\* sample, which mapped to that cell and was lit), and no lit sample processed
\* so far that mapped to the cell had a greater ooz.
C2_GlyphDepthCoupled ==
    (pc \in {"sweep", "write_home", "write_rows", "advance"}) =>
        \A rc \in Cells :
            LET r == rc[1]
                c == rc[2]
                s == src[r][c]
            IN  /\ output[r][c] # " " =>
                    /\ s.yp = r /\ s.xp = c /\ s.l > 0
                    /\ zbuffer[r][c] = s.ooz
                    /\ output[r][c] = GlyphOf(s.l)
                    /\ best[r][c].ooz <= zbuffer[r][c]
                    /\ hit[r][c].ooz <= zbuffer[r][c]
                /\ (output[r][c] = " ") = (zbuffer[r][c] = 0)

\* C2's case: in mid-sweep, a cell shows the glyph of an earlier sample after
\* a farther lit sample that mapped to it was processed
C2_Witness ==
    /\ pc = "sweep"
    /\ last.l > 0
    /\ InGrid(last)
    /\ output[last.yp][last.xp] # " "
    /\ hit[last.yp][last.xp] = last
    /\ src[last.yp][last.xp] # last
    /\ last.ooz < zbuffer[last.yp][last.xp]

\* the projection of s, before the cast, lies outside the grid
Outside(s) ==
    \/ s.xr < 0 \/ s.xr >= SCREEN_WIDTH * Unit
    \/ s.yr < 0 \/ s.yr >= SCREEN_HEIGHT * Unit

\* what the claim C3 requires of one plotted sample
PlotChecksBounds ==
    pc \in {"plot", "plot_again"} =>
          /\ pc' # "panic"
          /\ Outside(last') => UNCHANGED grids
          /\ (/\ ~Outside(last')
              /\ last'.l > 0
              /\ last'.ooz > zbuffer[last'.yr \div Unit][last'.xr \div Unit])
             => /\ output'[last'.yr \div Unit][last'.xr \div Unit] = GlyphOf(last'.l)
                /\ zbuffer'[last'.yr \div Unit][last'.xr \div Unit] = last'.ooz

C4_GridsResetEachFrame ==
    (pc = "render_frame" \/ (pc = "sweep" /\ theta = 0 /\ phi = 0)) =>
        /\ output = BlankOutput
        /\ zbuffer = ZeroDepth
        /\ buf = <<>>
        /\ flushes = 2 + ticks

\* C4's case: render_frame starts for a later frame, after a frame was flushed
C4_Witness ==
    /\ pc = "render_frame"
    /\ ticks >= 1
    /\ output = BlankOutput
    /\ flushes >= 3

\* C5 as amended: after n ticks the rotation state is (1.0 + 0.07 n, 1.0 + 0.03 n)
C5_AnglesAfterTicks ==
    /\ a = INIT_A + STEP_A * ticks
    /\ b = INIT_B + STEP_B * ticks

\* C5's case: 100 ticks have run, and A = 8.0, B = 4.0
C5_Witness == ticks = 100 /\ a = 800 /\ b = 400

\* C5 as stated: 100 ticks leave A = 7.0 and B = 3.0
C5_Original == ticks = 100 => (a = 700 /\ b = 300)

\* a step that records an I/O error ends run and changes nothing else
FailureChangesNothing ==
    err' = "io_error" =>
            /\ pc' = "exit"
            /\ UNCHANGED <<a, b, ticks, theta, phi, output, zbuffer, flushes, termRow>>
            /\ buf' = buf

\* C6: an I/O failure is neither retried nor recovered: the failing call changes
\* nothing, run returns its error at once, nothing is written, rendered or
\* advanced after it; and run ends only through an I/O failure.
C6_IoErrorIsFatal ==
    /\ []((pc = "exit") = (err = "io_error"))
    /\ [](pc # "panic")
    /\ [][err = "none"]_vars
    /\ [][FailureChangesNothing]_vars

\* C6's case: run has returned the error of a failed call, with writes queued
C6_Witness == pc = "exit" /\ err = "io_error" /\ buf # <<>>

\* C7: nothing is written during the sweep; then the cursor is moved home and
\* the grid is written in one pass, SCREEN_HEIGHT rows of SCREEN_WIDTH glyphs
\* in order, grid row 0 on the home row (terminal row 0), grid row i on
\* terminal row i, with no full-screen clear.
C7_RowsDrawnFromHomeRow ==
    /\ pc \in {"render_frame", "sweep", "write_home"} => buf = <<>>
    /\ pc = "write_rows" =>
          /\ termRow = row
          /\ Len(buf) = Len(HomeBytes) + row * (SCREEN_WIDTH + 1) + col
          /\ \A k \in 1..Len(buf) : buf[k] # "ESC[2J"

\* the glyphs of the palette
Glyphs == {Palette[k] : k \in 1..Len(Palette)}

\* C8: the luminance index of every lit sample is in 0..11, the palette lookup
\* never fails, and every stored glyph is blank or one of the 12 glyphs.
C8_LuminanceIndexInPalette ==
    /\ pc # "panic"
    /\ last.l > 0 => LuminanceIndex(last.l) \in 0..11
    /\ \A rc \in Cells :
          /\ output[rc[1]][rc[2]] \in Glyphs \cup {" "}
          /\ src[rc[1]][rc[2]].l > 0 => LuminanceIndex(src[rc[1]][rc[2]].l) \in 0..11

\* C8's case: a sample of the brightest bucket was plotted as '@'
C8_Witness ==
    \E rc \in Cells :
        /\ output[rc[1]][rc[2]] = "@"
        /\ LuminanceIndex(src[rc[1]][rc[2]].l) = 11

\* what render_frame writes for a grid: home, then every row and a newline
RECURSIVE FrameBytes(_, _)
FrameBytes(grid, r) ==
    IF r = SCREEN_HEIGHT THEN <<>>
    ELSE [k \in 1..SCREEN_WIDTH |-> grid[r][k - 1]] \o <<"LF">> \o FrameBytes(grid, r + 1)

\* C9: the grid of every frame of run equals the grid of a new App given the
\* same samples, so it depends on the frame's (A, B) alone, and so do the
\* bytes written for it.
C9_FrameDependsOnlyOnAngles ==
    /\ pc \in {"sweep", "write_home", "write_rows", "advance"} =>
          output = fresh.output
    /\ (pc = "write_rows" /\ row = SCREEN_HEIGHT) =>
          buf = HomeBytes \o FrameBytes(fresh.output, 0)

\* C9's case: a later frame of run is written out
C9_Witness ==
    /\ pc = "write_rows"
    /\ row = SCREEN_HEIGHT
    /\ ticks >= 1
    /\ output # BlankOutput

\* what the claim C10 requires of one step of the sweep
DarkSampleSkipped ==
    (pc = "sweep" /\ InSweep(theta) /\ InSweep(phi)) =>
          LET s == SampleAt(theta, phi, a, b)
          IN  /\ s.l <= 0 => (UNCHANGED grids /\ pc' = "sweep")
              /\ grids' # grids => s.l > 0

\* C10: a sample with L <= 0 changes no cell of either grid and is no error;
\* only a sample with L > 0 changes a cell.
C10_DarkSamplesDiscarded == [][DarkSampleSkipped]_vars

\* C10's case: a sample with L <= 0 was processed whose ooz exceeds the depth
\* stored at its cell
C10_Witness ==
    /\ pc = "sweep"
    /\ last.l <= 0
    /\ InGrid(last)
    /\ last.ooz > zbuffer[last.yp][last.xp]

====
